---- MODULE Spec2Model ----
(***************************************************************************)
(* A model of the separate-chaining hash table of src/src/lib.rs:          *)
(* HashTable { buckets, total_entries, hasher } with insert, _insert, get, *)
(* get_mut, remove, entry(..).or_insert, capacity and the table iterator.  *)
(*                                                                         *)
(* Sequences are 1-based here and 0-based in the source: chain i of the    *)
(* source is buckets[i + 1].  An Option is the empty tuple (None) or a     *)
(* one-element tuple (Some(x)).  An entry (k, v) is the tuple <<k, v>>.    *)
(***************************************************************************)
EXTENDS Integers, Sequences, FiniteSets, TLC

\* ------------------------------------------------------------------ bounds
MaxKey == 3        \* keys are 1..MaxKey
MaxHash == 2       \* a hash strategy maps a key into 0..MaxHash
MaxInitCap == 3    \* with_capacity(c) is called with c in 0..MaxInitCap
MaxTotal == 3      \* _insert is not called once total_entries reaches this
MaxGrowKey == 7    \* the insert-only runs insert the keys 1..MaxGrowKey
MaxGrowHash == 1   \* and hash them into 0..MaxGrowHash

\* ------------------------------------------------------- program constants
DefaultCapacity == 10   \* default_number_of_starting_buckets
LoadNum == 3            \* the 0.75 threshold as LoadNum / LoadDen:
LoadDen == 4            \* x / y > 0.75 in f64 is 4x > 3y for counts below 2^52

Keys == 1..MaxKey
Hashes == 0..MaxHash
GrowKeys == 1..MaxGrowKey

\* V is an unconstrained type parameter: the table stores, moves and returns
\* values and never inspects them, so two values tell an old from a new one.
Vals == {1, 2}

None == <<>>
Some(x) == <<x>>

VARIABLES
    buckets,        \* HashTable.buckets: a sequence of chains of <<k, v>>
    total_entries,  \* HashTable.total_entries
    hasher,         \* HashTable.hasher, as the function key |-> hash
    grow_from,      \* the capacity of the empty table an insert-only run of
                    \* distinct keys started from (0: the run is not such a run)
    op,             \* the last call made ("write": a write through ref)
    key,            \* its key argument
    val,            \* its value argument (0 when it has none)
    ret,            \* what it returned (an Option)
    grew,           \* whether the last call on the table took the resize
                    \* branch of _insert
    ref,            \* the live &mut V a call returned: <<chain, pos>> or None
    panicked,       \* the call ended in a panic (remainder by zero)
    shadow,         \* what a plain map holds after the same calls: key |-> Option
    iter,           \* the live HashTableIterator: <<eb, ep, bi>> or None
    yielded,        \* the items its next() returned so far
    exhausted,      \* its next() returned None
    keys_view,      \* Some(Keys.inner) once into_keys has consumed the table
                    \* (buckets then keeps what the table held), else None
    kphase,         \* which loop over the view runs: "ref", "val", "done"
    by_ref,         \* the keys `for k in &keys` yielded so far
    by_val          \* the keys `for k in keys` yielded so far

tvars == <<buckets, total_entries, hasher, grow_from>>
cvars == <<op, key, val, ret, grew, ref, panicked, shadow>>
ivars == <<iter, yielded, exhausted>>
kvars == <<keys_view, kphase, by_ref, by_val>>
vars == <<tvars, cvars, ivars, kvars>>

\* ------------------------------------------------------------ pure helpers

\* SimpleHasher::hash for the table's strategy.
Hash(k) == hasher[k]

\* The constant strategy of the collision test (SillyHasher returns 0).
SillyHasher == [k \in Keys |-> 0]

\* Whether the table's strategy returns the same value for every key.
IsConstantHasher == \A a, b \in DOMAIN hasher : hasher[a] = hasher[b]

\* A strategy is any deterministic function of the key (DefaultSimpleHasher's
\* values are not known to the model, so every function is allowed).  The
\* table only ever compares keys for equality, so renaming the keys maps a
\* behaviour to a behaviour: one strategy per renaming class, the monotone
\* one, stands for the class.
HashFns == {f \in [Keys -> Hashes] : \A a, b \in Keys : a <= b => f[a] <= f[b]}

\* vec![] pushed n times.
EmptyBuckets(n) == [i \in 1..n |-> <<>>]

\* hash as usize % len, shifted to a 1-based chain number.  The cast is the
\* same function of the hash in every operation, so it is part of Hash here.
\* len = 0 is a remainder by zero: the callers panic before using this.
BucketIndex(h, len) == (h % len) + 1

\* A scan that looks at the head of the chain only.
FirstPosHeadOnly(chain, k) ==
    IF Len(chain) > 0 /\ chain[1][1] = k THEN 1 ELSE 0

\* The first position in chain whose key equals k (0: none): the scan of
\* insert, get and get_mut stops at the first match.
FirstPos(chain, k) ==
    IF \E i \in 1..Len(chain) : chain[i][1] = k
    THEN CHOOSE i \in 1..Len(chain) :
            /\ chain[i][1] = k
            /\ \A j \in 1..(i - 1) : chain[j][1] # k
    ELSE 0

\* A scan that takes any entry of the chain for a match.
LastPosAnyEntry(chain, k) == Len(chain)

\* The last position in chain whose key equals k (0: none): the scan of
\* remove does not stop, so a later match overwrites index.
LastPos(chain, k) ==
    IF \E i \in 1..Len(chain) : chain[i][1] = k
    THEN CHOOSE i \in 1..Len(chain) :
            /\ chain[i][1] = k
            /\ \A j \in (i + 1)..Len(chain) : chain[j][1] # k
    ELSE 0

\* A removal that drops the last slot without moving it to slot i first.
SwapRemoveNoSwap(chain, i) == SubSeq(chain, 1, Len(chain) - 1)

\* Vec::swap_remove(i): the last element takes slot i, the vector shrinks.
SwapRemove(chain, i) ==
    IF i = Len(chain)
    THEN SubSeq(chain, 1, Len(chain) - 1)
    ELSE [SubSeq(chain, 1, Len(chain) - 1) EXCEPT ![i] = chain[Len(chain)]]

\* The capacity check on the load before the new entry is counted.
NeedsGrowNotProjected(total, len) == LoadDen * total > LoadNum * len

\* The capacity check with >= in place of >.
NeedsGrowAtThreshold(total, len) == LoadDen * (total + 1) >= LoadNum * len

\* new_load_factor > 0.75, with new_load_factor = (total + 1) / len.
NeedsGrow(total, len) == LoadDen * (total + 1) > LoadNum * len

\* All entries of a bucket store, in store order then chain order.
RECURSIVE Flatten(_)
Flatten(bs) ==
    IF bs = <<>> THEN <<>> ELSE Head(bs) \o Flatten(Tail(bs))

\* A rehash that keeps the index under the old capacity.
RehashIndexStale(e, len) == BucketIndex(Hash(e[1]), len \div 2)

\* The chain an entry is rehashed into during a resize.
RehashIndex(e, len) == BucketIndex(Hash(e[1]), len)

\* A rehash loop that assigns the entry to its chain instead of pushing it.
RECURSIVE PushAllAssign(_, _)
PushAllAssign(bs, es) ==
    IF es = <<>> THEN bs
    ELSE PushAllAssign([bs EXCEPT ![RehashIndex(Head(es), Len(bs))] = <<Head(es)>>],
                       Tail(es))

\* The rehash loop: each drained entry is pushed on its chain of new_buckets.
RECURSIVE PushAll(_, _)
PushAll(bs, es) ==
    IF es = <<>> THEN bs
    ELSE PushAll([bs EXCEPT ![RehashIndex(Head(es), Len(bs))] = Append(@, Head(es))],
                 Tail(es))

\* A resize that adds one chain instead of doubling.
ResizedByOne(bs, total) ==
    IF NeedsGrow(total, Len(bs))
    THEN PushAll(EmptyBuckets(Len(bs) + 1), Flatten(bs))
    ELSE bs

\* The store _insert works on after its capacity check.
Resized(bs, total) ==
    IF NeedsGrow(total, Len(bs))
    THEN PushAll(EmptyBuckets(Len(bs) * 2), Flatten(bs))
    ELSE bs

\* The chain of the index insert computed before the resize.
PlaceIndexStale(h, oldlen, newlen) == BucketIndex(h, oldlen)

\* The chain _insert pushes the new entry on: hash % len of the new store.
PlaceIndex(h, oldlen, newlen) == BucketIndex(h, newlen)

\* A lookup that returns the head of the chain without comparing keys.
GetHeadOfChain(bs, k) ==
    LET chain == bs[BucketIndex(Hash(k), Len(bs))]
    IN  IF chain = <<>> THEN None ELSE Some(chain[1][2])

\* HashTable::get as a function of the store.
Get(bs, k) ==
    LET chain == bs[BucketIndex(Hash(k), Len(bs))]
        p == FirstPos(chain, k)
    IN  IF p = 0 THEN None ELSE Some(chain[p][2])

\* HashTable::capacity.
Capacity == Len(buckets)

\* ------------------------------------------------------------------- Init

\* The capacities a table is constructed with: with_capacity(c), and the
\* default of new() and with_hasher(h).
InitCaps == 0..MaxInitCap
GrowCaps == 1..DefaultCapacity

\* The state after with_capacity(c) / new() / with_hasher(h), strategy h.
Constructed(c, h, g) ==
    /\ buckets = EmptyBuckets(c)
    /\ total_entries = 0
    /\ hasher = h
    /\ grow_from = g
    /\ op = "new"
    /\ key = 0
    /\ val = 0
    /\ ret = None
    /\ grew = FALSE
    /\ ref = None
    /\ panicked = FALSE
    /\ shadow = [k \in DOMAIN h |-> None]
    /\ iter = None
    /\ yielded = <<>>
    /\ exhausted = FALSE
    /\ keys_view = None
    /\ kphase = "none"
    /\ by_ref = <<>>
    /\ by_val = <<>>

Init == \E c \in InitCaps, h \in HashFns : Constructed(c, h, 0)

\* ---------------------------------------------------------------- actions

\* A remainder by a zero bucket count: the call panics.
Panic(o, k, v) ==
    /\ panicked' = TRUE
    /\ op' = o
    /\ key' = k
    /\ val' = v
    /\ ret' = None
    /\ grew' = FALSE
    /\ ref' = None
    /\ UNCHANGED <<tvars, shadow>>

\* The store after _insert(k, v, hash) on store bs counting total entries:
\* the capacity check, then the push on chain hash % len of the new store.
StoreAfter(bs, total, k, v, h) ==
    LET nb == Resized(bs, total)
        bi == PlaceIndex(h, Len(bs), Len(nb))
    IN  [nb EXCEPT ![bi] = Append(@, <<k, v>>)]

\* HashTable::_insert(k, v, hash): the effect on buckets, total_entries and
\* the branch taken at the capacity check.
InsertNewAt(k, v, h) ==
    /\ buckets' = StoreAfter(buckets, total_entries, k, v, h)
    /\ total_entries' = total_entries + 1
    /\ grew' = NeedsGrow(total_entries, Len(buckets))

\* The hash insert computes on entry and hands to _insert.
InsertHash(k) == Hash(k)

\* A Vacant branch that hands _insert a fixed hash.
VacantHashZero(k) == 0

\* The hash the Vacant branch of or_insert computes and hands to _insert.
VacantHash(k) == Hash(k)

\* self._insert(k, v, hash) as insert calls it.
InsertNew(k, v) == InsertNewAt(k, v, InsertHash(k))

\* ht._insert(k, v, hash) as the Vacant branch of or_insert calls it.
InsertVacant(k, v) == InsertNewAt(k, v, VacantHash(k))

\* A reference to the first value of the chain.
NewPosFirst(chainlen) == 1

\* The position in its chain of the value _insert returns a reference to:
\* len - 1 of the chain after the push (1-based: its length).
NewPos(chainlen) == chainlen

\* The &mut V that _insert(k, v, hash) returns, given the store after it.
NewRef(k, bs) ==
    LET bi == BucketIndex(VacantHash(k), Len(bs))
    IN  <<bi, NewPos(Len(bs[bi]))>>

\* The pair insert puts in the slot of an existing key (mem::replace).
Replacement(k, v) == <<k, v>>

\* An overwrite that counts as a new entry.
AfterOverwriteCounted(total) == total + 1

\* The counter after insert has overwritten an existing key: untouched.
AfterOverwrite(total) == total

\* HashTable::insert(k, v).
Insert(k, v) ==
    /\ ~panicked
    /\ iter = None
    /\ keys_view = None
    /\ UNCHANGED <<ivars, kvars>>
    /\ IF Len(buckets) = 0 THEN Panic("insert", k, v)
       ELSE LET bi == BucketIndex(Hash(k), Len(buckets))
                p == FirstPos(buckets[bi], k)
            IN  /\ op' = "insert"
                /\ key' = k
                /\ val' = v
                /\ ref' = None
                /\ shadow' = [shadow EXCEPT ![k] = Some(v)]
                /\ UNCHANGED <<hasher, grow_from, panicked>>
                /\ IF p # 0
                   THEN /\ buckets' = [buckets EXCEPT ![bi][p] = Replacement(k, v)]
                        /\ ret' = Some(buckets[bi][p][2])
                        /\ grew' = FALSE
                        /\ total_entries' = AfterOverwrite(total_entries)
                   ELSE /\ InsertNew(k, v)
                        /\ ret' = None

\* HashTable::get(k).
GetCall(k) ==
    /\ ~panicked
    /\ iter = None
    /\ keys_view = None
    /\ UNCHANGED <<ivars, kvars>>
    /\ IF Len(buckets) = 0 THEN Panic("get", k, 0)
       ELSE /\ op' = "get"
            /\ key' = k
            /\ val' = 0
            /\ ret' = Get(buckets, k)
            /\ grew' = FALSE
            /\ ref' = None
            /\ UNCHANGED <<tvars, panicked, shadow>>

\* The &mut V that get_mut(k) returns (None: the key is absent).
GetMutRef(bs, k) ==
    LET bi == BucketIndex(Hash(k), Len(bs))
        p == FirstPos(bs[bi], k)
    IN  IF p = 0 THEN None ELSE <<bi, p>>

\* HashTable::get_mut(k).
GetMut(k) ==
    /\ ~panicked
    /\ iter = None
    /\ keys_view = None
    /\ UNCHANGED <<ivars, kvars>>
    /\ IF Len(buckets) = 0 THEN Panic("get_mut", k, 0)
       ELSE /\ op' = "get_mut"
            /\ key' = k
            /\ val' = 0
            /\ ret' = Get(buckets, k)
            /\ grew' = FALSE
            /\ ref' = GetMutRef(buckets, k)
            /\ UNCHANGED <<tvars, panicked, shadow>>

\* The counter after remove has taken an entry out: remove never writes it.
AfterRemove(total) == total

\* HashTable::remove(k).
Remove(k) ==
    /\ ~panicked
    /\ iter = None
    /\ keys_view = None
    /\ UNCHANGED <<ivars, kvars>>
    /\ IF Len(buckets) = 0 THEN Panic("remove", k, 0)
       ELSE LET bi == BucketIndex(Hash(k), Len(buckets))
                p == LastPos(buckets[bi], k)
            IN  /\ op' = "remove"
                /\ key' = k
                /\ val' = 0
                /\ grew' = FALSE
                /\ ref' = None
                /\ shadow' = [shadow EXCEPT ![k] = None]
                /\ UNCHANGED <<hasher, grow_from, panicked>>
                /\ IF p = 0
                   THEN /\ ret' = None
                        /\ UNCHANGED <<buckets, total_entries>>
                   ELSE /\ ret' = Some(buckets[bi][p][2])
                        /\ buckets' = [buckets EXCEPT ![bi] = SwapRemove(@, p)]
                        /\ total_entries' = AfterRemove(total_entries)

\* An entry that is always the Vacant view.
EntryOfAlwaysVacant(bs, k) == "Vacant"

\* HashTable::entry(k): which view it yields.
EntryOf(bs, k) == IF Get(bs, k) # None THEN "Occupied" ELSE "Vacant"

\* entry(k).or_insert(v): HashTable::entry, then Entry::or_insert on the view.
OrInsert(k, v) ==
    /\ ~panicked
    /\ iter = None
    /\ keys_view = None
    /\ UNCHANGED <<ivars, kvars>>
    /\ IF Len(buckets) = 0 THEN Panic("or_insert", k, v)
       ELSE /\ op' = "or_insert"
            /\ key' = k
            /\ val' = v
            /\ shadow' = [shadow EXCEPT ![k] = IF @ = None THEN Some(v) ELSE @]
            /\ UNCHANGED <<hasher, grow_from, panicked>>
            /\ IF EntryOf(buckets, k) = "Occupied"
               THEN /\ ref' = GetMutRef(buckets, k)
                    /\ ret' = Get(buckets, k)
                    /\ grew' = FALSE
                    /\ UNCHANGED <<buckets, total_entries>>
               ELSE /\ InsertVacant(k, v)
                    /\ ref' = NewRef(k, buckets')
                    /\ ret' = Some(buckets'[ref'[1]][ref'[2]][2])

\* A write through the live &mut V returned by or_insert or get_mut
\* (*user = w); the reference is dropped afterwards.
WriteRef(w) ==
    /\ ~panicked
    /\ iter = None
    /\ keys_view = None
    /\ ref # None
    /\ buckets' = [buckets EXCEPT ![ref[1]][ref[2]][2] = w]
    /\ op' = "write"
    /\ val' = w
    /\ ret' = None
    /\ ref' = None
    /\ shadow' = [shadow EXCEPT ![key] = Some(w)]
    /\ UNCHANGED <<key, grew, total_entries, hasher, grow_from, panicked, ivars, kvars>>

\* The model stops calling _insert at MaxTotal entries: a call that would
\* create an entry is made only below it.
CreatesEntry(k) == Len(buckets) > 0 /\ Get(buckets, k) = None
Within(k, limit) == CreatesEntry(k) => total_entries < limit

Next ==
    \/ \E k \in Keys, v \in Vals : Within(k, MaxTotal) /\ Insert(k, v)
    \/ \E k \in Keys : GetCall(k)
    \/ \E k \in Keys : GetMut(k)
    \/ \E k \in Keys : Remove(k)
    \/ \E k \in Keys, v \in Vals : Within(k, MaxTotal) /\ OrInsert(k, v)
    \/ \E w \in Vals : WriteRef(w)

Spec == Init /\ [][Next]_vars

\* ------------------------------------------------- the insert-only runs

\* An empty table of capacity 1..10 (9 in the resizing test, 10 by default)
\* with any strategy over the keys of the run.
InitGrowth ==
    \E c \in GrowCaps, h \in [GrowKeys -> 0..MaxGrowHash] : Constructed(c, h, c)

\* The value the run stores under key k.
GrowVal(k) == (k % 2) + 1

\* The n-th call inserts key n: distinct keys, in an order that stands for
\* every order since every strategy is tried.
NextGrowth ==
    /\ total_entries < MaxGrowKey
    /\ Insert(total_entries + 1, GrowVal(total_entries + 1))

SpecGrowth == InitGrowth /\ [][NextGrowth]_vars

\* ------------------------------------------------------- table iteration

\* (&table).into_iter(): buckets_iterator has handed out the first chain, or
\* elements_iterator is the empty slice when there is no chain.  <<eb, ep,
\* bi>>: elements_iterator is at position ep of chain eb (0: the empty
\* slice), buckets_iterator hands out chain bi next.
IntoIterState(bs) == IF Len(bs) = 0 THEN <<0, 1, 1>> ELSE <<1, 1, 2>>

\* A next() that moves on to the next chain without recursing: it ends the
\* iteration at the first empty chain.
NextFromNoRecursion(bs, eb, ep, bi) ==
    IF eb # 0 /\ ep <= Len(bs[eb])
    THEN <<Some(bs[eb][ep]), <<eb, ep + 1, bi>>>>
    ELSE IF bi > Len(bs)
         THEN <<None, <<eb, ep, bi>>>>
         ELSE IF Len(bs[bi]) > 0
              THEN <<Some(bs[bi][1]), <<bi, 2, bi + 1>>>>
              ELSE <<None, <<bi, 1, bi + 1>>>>

\* HashTableIterator::next from <<eb, ep, bi>>: <<the item or None, the
\* iterator after the call>>.  An exhausted chain moves on to the next one
\* and recurses.
RECURSIVE NextFrom(_, _, _, _)
NextFrom(bs, eb, ep, bi) ==
    IF eb # 0 /\ ep <= Len(bs[eb])
    THEN <<Some(bs[eb][ep]), <<eb, ep + 1, bi>>>>
    ELSE IF bi > Len(bs)
         THEN <<None, <<eb, ep, bi>>>>
         ELSE NextFrom(bs, bi, 1, bi + 1)

\* for .. in &table: the iterator borrows the table.
IntoIter ==
    /\ ~panicked
    /\ iter = None
    /\ keys_view = None
    /\ ref = None
    /\ iter' = IntoIterState(buckets)
    /\ yielded' = <<>>
    /\ exhausted' = FALSE
    /\ UNCHANGED <<tvars, cvars, kvars>>

\* One call of next() on the live iterator.
IterNext ==
    /\ iter # None
    /\ ~exhausted
    /\ LET r == NextFrom(buckets, iter[1], iter[2], iter[3])
       IN  /\ iter' = r[2]
           /\ IF r[1] = None
              THEN exhausted' = TRUE /\ UNCHANGED yielded
              ELSE yielded' = Append(yielded, r[1][1]) /\ UNCHANGED exhausted
    /\ UNCHANGED <<tvars, cvars, kvars>>

\* The iterator goes out of scope; the table can be mutated again.
DropIter ==
    /\ iter # None
    /\ iter' = None
    /\ yielded' = <<>>
    /\ exhausted' = FALSE
    /\ UNCHANGED <<tvars, cvars, kvars>>

NextIter ==
    \/ \E k \in Keys, v \in Vals : Within(k, MaxTotal) /\ Insert(k, v)
    \/ \E k \in Keys : Remove(k)
    \/ IntoIter
    \/ IterNext
    \/ DropIter

SpecIter == Init /\ [][NextIter]_vars

\* ------------------------------------------------------------- into_keys

\* A loop that pushes only the first key of each chain.
KeysOfChainHead(chain) == IF chain = <<>> THEN <<>> ELSE <<chain[1][1]>>

\* The inner loop of into_keys: the keys of one chain, in chain order.
KeysOfChain(chain) == [i \in 1..Len(chain) |-> chain[i][1]]

\* HashTable::into_keys: the outer loop over the chains in store order.
RECURSIVE IntoKeysOf(_)
IntoKeysOf(bs) ==
    IF bs = <<>> THEN <<>> ELSE KeysOfChain(Head(bs)) \o IntoKeysOf(Tail(bs))

\* into_keys(self): the table is moved into the view.
IntoKeys ==
    /\ ~panicked
    /\ iter = None
    /\ keys_view = None
    /\ ref = None
    /\ keys_view' = Some(IntoKeysOf(buckets))
    /\ kphase' = "ref"
    /\ by_ref' = <<>>
    /\ by_val' = <<>>
    /\ UNCHANGED <<tvars, cvars, ivars>>

\* One next() of slice::Iter over inner: <<the item or None>>.
SliceNext(inner, pos) == IF pos <= Len(inner) THEN Some(inner[pos]) ELSE None

\* One step of `for k in &keys` (IntoIterator for &Keys: inner.iter()).
KeysNextRef ==
    /\ kphase = "ref"
    /\ LET r == SliceNext(keys_view[1], Len(by_ref) + 1)
       IN  IF r = None
           THEN kphase' = "val" /\ UNCHANGED by_ref
           ELSE by_ref' = Append(by_ref, r[1]) /\ UNCHANGED kphase
    /\ UNCHANGED <<tvars, cvars, ivars, keys_view, by_val>>

\* One step of `for k in keys` (IntoIterator for Keys: inner.into_iter()).
KeysNextVal ==
    /\ kphase = "val"
    /\ LET r == SliceNext(keys_view[1], Len(by_val) + 1)
       IN  IF r = None
           THEN kphase' = "done" /\ UNCHANGED by_val
           ELSE by_val' = Append(by_val, r[1]) /\ UNCHANGED kphase
    /\ UNCHANGED <<tvars, cvars, ivars, keys_view, by_ref>>

NextKeys ==
    \/ \E k \in Keys, v \in Vals : Within(k, MaxTotal) /\ Insert(k, v)
    \/ \E k \in Keys : Remove(k)
    \/ IntoKeys
    \/ KeysNextRef
    \/ KeysNextVal

SpecKeys == Init /\ [][NextKeys]_vars

\* ================================================================ claims

\* The number of entries stored across all chains.
Stored(bs) == Len(Flatten(bs))

\* Whether key k is stored (the store has at least one chain).
Present(bs, k) == Len(bs) > 0 /\ Get(bs, k) # None
Absent(bs, k) == Len(bs) > 0 /\ Get(bs, k) = None

IsPrefix(s, t) == Len(s) <= Len(t) /\ SubSeq(t, 1, Len(s)) = s

\* C1. Round trip: right after insert(k, v) on a table of capacity >= 1,
\* get(k) returns v, whether k was absent or present and whether or not the
\* insert resized.
C1_RoundTrip ==
    (op = "insert" /\ ~panicked) => Get(buckets, key) = Some(val)

\* An insert of an absent key that resized a table holding other entries.
C1_Witness ==
    /\ op = "insert" /\ ~panicked /\ ret = None /\ grew
    /\ Stored(buckets) >= 2
    /\ Get(buckets, key) = Some(val)

\* C2. Overwrite: insert(k, v2) while k is present with v1 returns v1, a
\* following get(k) returns v2, and the counter, the capacity and the number
\* of stored entries are unchanged (no resize check is made).
C2_Overwrite ==
    [][(op' = "insert" /\ Present(buckets, key'))
        => /\ ret' = Get(buckets, key')
           /\ Get(buckets', key') = Some(val')
           /\ total_entries' = total_entries
           /\ Len(buckets') = Len(buckets)
           /\ Stored(buckets') = Stored(buckets)
           /\ ~grew']_vars

\* An overwrite with a new value made while the counter is at the growth
\* threshold (an _insert would resize).
C2_Witness ==
    /\ op = "insert" /\ ret # None /\ ret # Some(val)
    /\ NeedsGrow(total_entries, Len(buckets))
    /\ Get(buckets, key) = Some(val)

\* C3. remove(k) of a present key returns its value, a following get(k)
\* returns absence, every other present key keeps its value, and the
\* capacity is unchanged.
C3_RemovePresent ==
    [][(op' = "remove" /\ Present(buckets, key'))
        => /\ ret' = Get(buckets, key')
           /\ Get(buckets', key') = None
           /\ \A k2 \in DOMAIN hasher \ {key'} :
                 Present(buckets, k2) => Get(buckets', k2) = Get(buckets, k2)
           /\ Len(buckets') = Len(buckets)]_vars

\* A removal from a chain that still holds two other keys.
C3_Witness ==
    /\ op = "remove" /\ ret # None /\ ~panicked
    /\ Len(buckets[BucketIndex(Hash(key), Len(buckets))]) >= 2
    /\ Get(buckets, key) = None

C5_ByStartingCapacity ==
    [][(op' = "insert" /\ grow_from # 0)
        => IF LoadDen * total_entries' > LoadNum * grow_from
           THEN Len(buckets') = 2 * Len(buckets)
           ELSE Len(buckets') = Len(buckets)]_vars

\* C5, amended. On an insert-only run of distinct keys from an empty table:
\* from capacity 9 the capacity is 9 after each of the first 6 inserts and
\* 18 after the 7th, and all 7 keys are then returned by get with their
\* values; and from any capacity >= 1 the n-th insert leaves the capacity
\* unchanged when n / c <= 0.75 and doubles it exactly once when
\* n / c > 0.75, c being the capacity just before that insert.
C5_GrowthTrigger ==
    /\ [](grow_from = 9 =>
            /\ total_entries <= 6 => Len(buckets) = 9
            /\ total_entries = 7 =>
                 /\ Len(buckets) = 18
                 /\ \A k \in 1..7 : Get(buckets, k) = Some(GrowVal(k)))
    /\ [][(op' = "insert" /\ grow_from # 0)
            => IF LoadDen * total_entries' > LoadNum * Len(buckets)
               THEN Len(buckets') = 2 * Len(buckets)
               ELSE Len(buckets') = Len(buckets)]_vars

\* The 7th insert into the table that started at capacity 9.
C5_Witness ==
    /\ grow_from = 9 /\ op = "insert" /\ total_entries = 7 /\ grew
    /\ Len(buckets) = 18

\* C6. An insert or vacant or_insert of an absent key resizes if and only
\* if (entries stored + 1) / capacity exceeds 0.75.
C6_LiveOccupancy ==
    [][(op' \in {"insert", "or_insert"} /\ Absent(buckets, key'))
        => (Len(buckets') # Len(buckets)
              <=> LoadDen * (Stored(buckets) + 1) > LoadNum * Len(buckets))]_vars

\* C7. No call on a constructible table (any capacity c >= 0) ends in an
\* abnormal termination.
C7_Total == ~panicked

\* C8. With a constant hash strategy, after inserting distinct keys (enough
\* to resize more than once) every inserted key is returned by get with its
\* own value and all entries are in the one chain the constant selects.
C8_ForcedCollision ==
    IsConstantHasher =>
        /\ \A k \in 1..total_entries : Get(buckets, k) = Some(GrowVal(k))
        /\ \A k \in GrowKeys : Get(buckets, k) = shadow[k]
        /\ \A i \in 1..Len(buckets) :
              i # BucketIndex(Hash(1), Len(buckets)) => buckets[i] = <<>>
        /\ Len(buckets[BucketIndex(Hash(1), Len(buckets))]) = total_entries

\* Three or more colliding keys in a table that has resized twice.
C8_Witness ==
    /\ IsConstantHasher /\ total_entries >= 3
    /\ Len(buckets) >= 4 * grow_from
    /\ Len(buckets[BucketIndex(Hash(1), Len(buckets))]) = total_entries

\* C9. A traversal of a table that is not mutated meanwhile yields the
\* stored pairs in store order then chain order, each exactly once and
\* nothing else, and ends: every next() yields one more pair or ends it.
C9_Iteration ==
    /\ [](iter # None =>
            /\ IsPrefix(yielded, Flatten(buckets))
            /\ exhausted => yielded = Flatten(buckets))
    /\ [][(iter # None /\ iter' # None /\ ~exhausted)
            => \/ exhausted' /\ yielded' = yielded
               \/ ~exhausted' /\ Len(yielded') = Len(yielded) + 1]_vars

\* A finished traversal of a table with two leading empty chains, a chain
\* of entries after them and empty chains at the end, after a remove.
C9_Witness ==
    /\ iter # None /\ exhausted /\ Len(yielded) >= 2
    /\ op = "remove" /\ ret # None
    /\ Len(buckets) >= 4
    /\ buckets[1] = <<>> /\ buckets[2] = <<>> /\ buckets[3] # <<>>
    /\ buckets[Len(buckets)] = <<>>

Pairs(bs) == {Flatten(bs)[i] : i \in 1..Stored(bs)}

\* C11. entry(k).or_insert(x) on a present key returns a reference to the
\* stored value, ignores x and leaves the chains, the counter and the
\* capacity unchanged; the lookup of the Occupied branch finds the key.
C11_OrInsertOccupied ==
    [][(op' = "or_insert" /\ Present(buckets, key'))
        => /\ buckets' = buckets
           /\ total_entries' = total_entries
           /\ ~grew'
           /\ ret' = Get(buckets, key')
           /\ ref' # None
           /\ buckets[ref'[1]][ref'[2]] = <<key', ret'[1]>>]_vars

\* An or_insert on a key stored with another value than x, made while the
\* counter is at the growth threshold.
C11_Witness ==
    /\ op = "or_insert" /\ ret # None /\ ret # Some(val) /\ ref # None
    /\ NeedsGrow(total_entries, Len(buckets))
    /\ Get(buckets, key) = ret

\* C13. No two entries stored anywhere in the table have equal keys.
C13_UniqueKeys ==
    \A i, j \in 1..Stored(buckets) :
        i # j => Flatten(buckets)[i][1] # Flatten(buckets)[j][1]

\* Three colliding keys in one chain after an or_insert on a stored key.
C13_Witness ==
    /\ Stored(buckets) >= 3 /\ op = "or_insert" /\ ret # Some(val)
    /\ \E i \in 1..Len(buckets) : Len(buckets[i]) >= 3

\* C14. capacity() is the number of chains; every step leaves it unchanged
\* or exactly doubles it, and only an insert of an absent key or an or_insert
\* on a vacant entry changes it.
C14_GrowthOnly ==
    [][/\ Capacity' = Len(buckets')
       /\ \/ Capacity' = Capacity
          \/ /\ Capacity' = 2 * Capacity
             /\ op' \in {"insert", "or_insert"}
             /\ Absent(buckets, key')]_vars

\* A second doubling, made by an or_insert.
C14_Witness ==
    /\ op = "or_insert" /\ grew /\ Capacity >= 4 /\ total_entries >= 2

\* C15. Every stored entry (k, v) is in chain hash(k) mod capacity of the
\* current capacity, so the lookup that scans only that chain finds it.
C15_Placement ==
    \A i \in 1..Len(buckets) : \A j \in 1..Len(buckets[i]) :
        /\ i = BucketIndex(Hash(buckets[i][j][1]), Len(buckets))
        /\ Get(buckets, buckets[i][j][1]) = Some(buckets[i][j][2])
        /\ GetMutRef(buckets, buckets[i][j][1]) = <<i, j>>
        /\ EntryOf(buckets, buckets[i][j][1]) = "Occupied"
        /\ LastPos(buckets[i], buckets[i][j][1]) = j

\* A resize that moved an entry to a chain the old capacity did not have.
C15_Witness ==
    /\ grew /\ Stored(buckets) >= 2
    /\ \E i \in 1..Len(buckets) :
          /\ 2 * i >= Len(buckets) + 2
          /\ buckets[i] # <<>>
          /\ buckets[i][1][1] # key

\* C16. A resizing insert or vacant or_insert leaves the pairs stored before
\* the call plus exactly the new pair, none lost, duplicated or changed, in
\* twice as many chains.
C16_ResizeKeeps ==
    [][(op' \in {"insert", "or_insert"} /\ grew')
        => /\ Pairs(buckets') = Pairs(buckets) \cup {<<key', val'>>}
           /\ <<key', val'>> \notin Pairs(buckets)
           /\ Stored(buckets') = Stored(buckets) + 1
           /\ Len(buckets') = 2 * Len(buckets)]_vars

\* A resize that rehashed two entries.
C16_Witness ==
    /\ op \in {"insert", "or_insert"} /\ grew /\ Stored(buckets) >= 3

\* C18. total_entries equals the number of pairs stored across all chains.
C18_CounterExact == total_entries = Stored(buckets)

\* C19. The table refines a plain map: on a table of capacity >= 1 every
\* result of insert, remove, get, get_mut and or_insert is the reference
\* map's, and the stored pairs are the reference map's contents.
C19_RefinesMap ==
    /\ []((Len(buckets) > 0 /\ ~panicked) =>
            /\ \A k \in DOMAIN hasher : Get(buckets, k) = shadow[k]
            /\ Pairs(buckets) =
                 {<<k, shadow[k][1]>> : k \in {x \in DOMAIN hasher : shadow[x] # None}}
            /\ Stored(buckets) = Cardinality(Pairs(buckets)))
    /\ [][(Len(buckets) > 0 /\ ~panicked')
            => /\ op' \in {"insert", "remove", "get", "get_mut"} => ret' = shadow[key']
               /\ op' = "or_insert" => ret' = shadow'[key']]_vars

\* A remove that returned a value, in a table that resized and still holds
\* two entries.
C19_Witness ==
    /\ op = "remove" /\ ret # None /\ Stored(buckets) >= 2
    /\ Len(buckets) >= 4

\* C20. On a table of capacity >= 1 the counter never exceeds 0.75 of the
\* capacity after a call, and the entries stored never exceed the counter:
\* one doubling per insert is enough.
C20_BoundedLoad ==
    Len(buckets) > 0 =>
        /\ LoadDen * total_entries <= LoadNum * Len(buckets)
        /\ Stored(buckets) <= total_entries

\* An insert into a table that resized earlier, which left the counter
\* exactly at 0.75 of the capacity while fewer entries are stored.
C20_Witness ==
    /\ op \in {"insert", "or_insert"} /\ ~grew
    /\ Len(buckets) >= 4
    /\ LoadDen * total_entries = LoadNum * Len(buckets)
    /\ Stored(buckets) < total_entries

\* C17. or_insert on a vacant entry is the step insert makes for an absent
\* key: from the same state, with the same key and value, the two calls
\* leave the same chains in the same order, the same counter and the same
\* capacity, after the same projected-load check.
C17_VacantIsInsert ==
    [][/\ (op' = "or_insert" /\ Absent(buckets, key'))
          => /\ buckets' = StoreAfter(buckets, total_entries, key', val',
                                      InsertHash(key'))
             /\ total_entries' = total_entries + 1
             /\ grew' = NeedsGrow(total_entries, Len(buckets))
       /\ (op' = "insert" /\ Absent(buckets, key'))
          => /\ buckets' = StoreAfter(buckets, total_entries, key', val',
                                      VacantHash(key'))
             /\ total_entries' = total_entries + 1
             /\ grew' = NeedsGrow(total_entries, Len(buckets))]_vars

\* A resizing or_insert that put its key in another chain than the first.
C17_Witness ==
    /\ op = "or_insert" /\ grew /\ ret = Some(val) /\ Stored(buckets) >= 2
    /\ BucketIndex(Hash(key), Len(buckets)) # 1

\* The pairs a traversal of the table yields from iterator state st on.
RECURSIVE Drain(_, _)
Drain(bs, st) ==
    LET r == NextFrom(bs, st[1], st[2], st[3])
    IN  IF r[1] = None THEN <<>> ELSE r[1] \o Drain(bs, r[2])

\* C12. into_keys() returns the key of every stored entry exactly once and
\* no other key, in the order table iteration visits them; iterating the
\* view by reference and then by value yields that same sequence.
C12_IntoKeys ==
    keys_view # None =>
        LET inner == keys_view[1]
            visit == Drain(buckets, IntoIterState(buckets))
        IN  /\ inner = [i \in 1..Len(visit) |-> visit[i][1]]
            /\ \A k \in DOMAIN hasher :
                  Cardinality({i \in 1..Len(inner) : inner[i] = k})
                     = IF \E e \in Pairs(buckets) : e[1] = k THEN 1 ELSE 0
            /\ IsPrefix(by_ref, inner) /\ IsPrefix(by_val, inner)
            /\ kphase \in {"val", "done"} => by_ref = inner
            /\ kphase = "done" => by_val = inner /\ by_val = by_ref

\* Both loops finished over the keys of a table that had a chain of two
\* entries behind an empty chain, after a remove.
C12_Witness ==
    /\ keys_view # None /\ kphase = "done" /\ Len(by_val) >= 2
    /\ op = "remove" /\ ret # None
    /\ \E i \in 2..Len(buckets) : buckets[i - 1] = <<>> /\ Len(buckets[i]) >= 2

====
